---- MODULE Spec2Model ----
(***************************************************************************)
(* Model of pkg/cli/admin/release/extract.go: ExtractOptions.Run and       *)
(* ExtractOptions.extractGit of `oc adm release extract`.                  *)
(*                                                                         *)
(* Strings are modelled as tuples so that len(s) == 0 is Len(s) = 0: the   *)
(* empty string is <<>>, a repository URL is <<"repo", n>>, a commit is    *)
(* <<"commit", n>>, a tag name is <<"tag", i>>.  The output streams are    *)
(* bags of lines <<kind, subject>>.                                        *)
(***************************************************************************)
EXTENDS Bags, FiniteSets, Integers, Sequences, TLC

VARIABLES
    o,                 \* the ExtractOptions the command runs with
    release,           \* release.References.Spec.Tags as LoadReleaseInfo returns them
    gitResult,         \* outcome of the git primitive for each source repository
    klogV2,            \* klog.V(2) is enabled
    pc,                \* position of the calling goroutine
    flow,              \* the extraction flow Run dispatched to
    result,            \* the error Run returns ("nil" for success)
    i,                 \* index of the next tag of the producer loop
    alreadyExtracted,  \* map[string]string repo -> commit
    tasks,             \* the work units handed to w.Parallel, in submission order
    hadErrors,         \* the captured flag of extractGit
    once,              \* sync.Once has fired
    hadErrorsWrites,   \* number of assignments to hadErrors so far
    loadResult,        \* the error of opts.LoadReleaseInfo ("none" before the call)
    cancelled,         \* ctx.Done() is closed
    stdout,            \* o.Out
    stderr,            \* o.ErrOut
    klog,              \* the klog info log
    verifier,          \* the imagemanifest.Verifier of the default flow
    callbacks,         \* the ImageMetadataCallback invocations, in order
    entries,           \* the tar entries offered to TarEntryCallback so far
    found              \* the captured flag of the single file flow

vars == <<o, release, gitResult, klogV2, pc, flow, result, i, alreadyExtracted,
          tasks, hadErrors, once, hadErrorsWrites, loadResult, cancelled, stdout, stderr,
          klog, verifier,
          callbacks, entries, found>>

gitVars == <<loadResult, i, alreadyExtracted, tasks, hadErrors, once, hadErrorsWrites,
            cancelled>>
extractVars == <<verifier, callbacks, entries, found>>
inputVars == <<o, release, gitResult, klogV2>>

-----------------------------------------------------------------------------
(* Bounds of the model *)

\* longest release (number of tags) of the specification Spec
MaxRefs == 3
\* number of distinct source repositories of the release of SpecWide
NumWide == 9
\* most tar entries the extractor offers to the TarEntryCallback
MaxEntries == 2

(* Program constants *)

\* workqueue.New(8, ctx.Done())
Workers == 8

-----------------------------------------------------------------------------
(* Values *)

Empty == <<>>

\* a source location: the URL of a repository, <scheme>://<host>/<path>
URL(scheme, host, path) == <<scheme, host, path>>
Host(repo) == repo[2]
Path(repo) == repo[3]

\* repository n, and the same repository under another spelling of its URL
Repo(n) == URL("https", "host", n)
Alias(n) == URL("http", "host", n)

Commit(n) == <<"commit", n>>
Tag(k) == <<"tag", k>>
Line(kind, subject) == <<kind, subject>>

\* fmt.Fprintf(stream, ...): one more line on the stream
Fprintf(stream, line) == stream (+) SetToBag({line})

SmallRepos == {Repo(1), Repo(2)}
SmallCommits == {Commit(1), Commit(2)}
Digests == {"sha256:a", "sha256:b"}
FileNames == {"image-references", "release-metadata"}

\* a tag of the release: its two source annotations ("" when missing)
Tags == [repo : SmallRepos \cup {Empty}, commit : SmallCommits \cup {Empty}]

\* the names of repositories and of commits are interchangeable: of the releases
\* that differ only by a renaming, the one whose first repository is Repo(1) and
\* whose first commit is Commit(1) is taken
FirstNamesFirst(rel) ==
    \A k \in DOMAIN rel :
        /\ rel[k].repo = Repo(2) => \E j \in 1..(k - 1) : rel[j].repo = Repo(1)
        /\ rel[k].commit = Commit(2) => \E j \in 1..(k - 1) : rel[j].commit = Commit(1)

\* the releases of at most MaxRefs tags
Releases == {rel \in UNION {[1..n -> Tags] : n \in 0..MaxRefs} : FirstNamesFirst(rel)}

\* the repositories of the tags that carry both annotations
SourceRepos(rel) ==
    {rel[k].repo : k \in {j \in DOMAIN rel : Len(rel[j].repo) # 0 /\ Len(rel[j].commit) # 0}}

GitOutcomes == {"ok", "cloneErr", "checkoutErr"}

Options ==
    [Tools : BOOLEAN,
     File : {Empty, <<"image-references">>},
     Command : {Empty, <<"oc">>},
     GitExtractDir : {Empty, <<"src">>},
     From : {Empty, <<"image:tag">>, <<"image@sha256">>},
     Directory : {<<".">>, <<"out">>},
     SecurityOptions_SkipVerification : BOOLEAN,
     ImageMetadataCallback : BOOLEAN]

\* oc adm release extract --from=image:tag --git=src
GitOptions ==
    [Tools |-> FALSE, File |-> Empty, Command |-> Empty, GitExtractDir |-> <<"src">>,
     From |-> <<"image:tag">>, Directory |-> <<".">>, SecurityOptions_SkipVerification |-> FALSE,
     ImageMetadataCallback |-> FALSE]

\* the releases of SpecScenario: A and B built from repository 1 at commit 1, C
\* from repository 2 at commit 2, D without a repository (with or without commit)
ScenarioReleases ==
    {<< [repo |-> Repo(1), commit |-> Commit(1)],
        [repo |-> Repo(1), commit |-> Commit(1)],
        [repo |-> Repo(2), commit |-> Commit(2)],
        [repo |-> Empty, commit |-> c] >> : c \in {Empty, Commit(1)}}

\* the tags of SpecAlias: repository 1 under two spellings of its URL, and
\* repository 2
AliasTags == [repo : {Repo(1), Alias(1), Repo(2)}, commit : {Commit(1)}]

\* the releases of SpecAlias, of one to MaxRefs tags
AliasReleases == UNION {[1..n -> AliasTags] : n \in 1..MaxRefs}

\* release of SpecWide: NumWide distinct repositories, then a tag without source
\* info, a second reference to the first repository at the same commit and a
\* third at another commit
WideRelease ==
    [k \in 1..NumWide |-> [repo |-> Repo(k), commit |-> Commit(1)]]
        \o << [repo |-> Empty, commit |-> Commit(1)],
              [repo |-> Repo(1), commit |-> Commit(1)],
              [repo |-> Repo(1), commit |-> Commit(2)] >>

\* git environment of SpecWide: the clone of the first repository fails and the
\* checkout of the last one fails
WideGitResults ==
    {[r \in SourceRepos(WideRelease) |->
        IF r = Repo(1) THEN "cloneErr"
        ELSE IF r = Repo(NumWide) THEN "checkoutErr"
        ELSE "ok"]}

-----------------------------------------------------------------------------
(* Initial states *)

InitState ==
    /\ pc = "Run"
    /\ flow = "none"
    /\ result = "none"
    /\ i = 1
    /\ alreadyExtracted = <<>>
    /\ tasks = <<>>
    /\ hadErrors = FALSE
    /\ once = FALSE
    /\ hadErrorsWrites = 0
    /\ loadResult = "none"
    /\ cancelled = FALSE
    /\ stdout = EmptyBag
    /\ stderr = EmptyBag
    /\ klog = EmptyBag
    /\ verifier = [exists |-> FALSE, verified |-> FALSE]
    /\ callbacks = <<>>
    /\ entries = <<>>
    /\ found = FALSE

Init ==
    /\ \/ /\ o \in Options
          /\ release = <<>>
          /\ gitResult = <<>>
          /\ klogV2 = FALSE
       \/ /\ o = GitOptions
          /\ release \in Releases
          /\ gitResult \in [SourceRepos(release) -> GitOutcomes]
          /\ klogV2 \in BOOLEAN
    /\ InitState

InitScenario ==
    /\ o = GitOptions
    /\ release \in ScenarioReleases
    /\ gitResult \in [SourceRepos(release) -> GitOutcomes]
    /\ klogV2 \in BOOLEAN
    /\ InitState

\* a release that may name one repository under two spellings of its URL
InitAlias ==
    /\ o = GitOptions
    /\ release \in AliasReleases
    /\ gitResult \in [SourceRepos(release) -> GitOutcomes]
    /\ klogV2 = FALSE
    /\ InitState

InitWide ==
    /\ o = GitOptions
    /\ release = WideRelease
    /\ gitResult \in WideGitResults
    /\ klogV2 = FALSE
    /\ InitState

-----------------------------------------------------------------------------
(* ExtractOptions.Run: validation and dispatch *)

sources(opt) ==
    (IF opt.Tools THEN 1 ELSE 0)
    + (IF Len(opt.File) > 0 THEN 1 ELSE 0)
    + (IF Len(opt.Command) > 0 THEN 1 ELSE 0)
    + (IF Len(opt.GitExtractDir) > 0 THEN 1 ELSE 0)

\* mutant: the switch of Run starts without the check of the number of sources
RunCase_noSourcesCheck(opt) ==
    IF Len(opt.From) = 0 THEN "errFrom"
    ELSE IF opt.Directory # <<".">> /\ Len(opt.File) > 0 THEN "errToFile"
    ELSE IF Len(opt.GitExtractDir) > 0 THEN "extractGit"
    ELSE IF opt.Tools THEN "extractTools"
    ELSE IF Len(opt.Command) > 0 THEN "extractCommand"
    ELSE "extract"

\* the case of the switch of Run that is taken
RunCase(opt) ==
    IF sources(opt) > 1 THEN "errSources"
    ELSE IF Len(opt.From) = 0 THEN "errFrom"
    ELSE IF opt.Directory # <<".">> /\ Len(opt.File) > 0 THEN "errToFile"
    ELSE IF Len(opt.GitExtractDir) > 0 THEN "extractGit"
    ELSE IF opt.Tools THEN "extractTools"
    ELSE IF Len(opt.Command) > 0 THEN "extractCommand"
    ELSE "extract"

Return(err) ==
    /\ pc' = "done"
    /\ result' = err

Run ==
    /\ pc = "Run"
    /\ IF RunCase(o) \in {"errSources", "errFrom", "errToFile"}
       THEN Return(RunCase(o)) /\ UNCHANGED flow
       ELSE pc' = RunCase(o) /\ UNCHANGED <<flow, result>>
    /\ UNCHANGED <<inputVars, gitVars, extractVars, stdout, stderr, klog>>

\* return o.extractTools()
extractTools ==
    /\ pc = "extractTools"
    /\ flow' = "tools"
    /\ \E err \in {"nil", "toolsErr"} : Return(err)
    /\ UNCHANGED <<inputVars, gitVars, extractVars, stdout, stderr, klog>>

\* return o.extractCommand(o.Command)
extractCommand ==
    /\ pc = "extractCommand"
    /\ flow' = "command"
    /\ \E err \in {"nil", "commandErr"} : Return(err)
    /\ UNCHANGED <<inputVars, gitVars, extractVars, stdout, stderr, klog>>

-----------------------------------------------------------------------------
(* ExtractOptions.extractGit *)

\* mutant: a failed setup ends in the silent exit
SetupError_silent(err) == "ErrExit"

\* if err != nil { return err } after os.MkdirAll and after opts.LoadReleaseInfo
SetupError(err) == err

\* os.MkdirAll(dir, 0777) and opts.LoadReleaseInfo(o.From, false); on success
\* hadErrors, once, alreadyExtracted, the context and the queue are created
extractGit ==
    /\ pc = "extractGit"
    /\ flow' = "git"
    /\ \E err \in {"nil", "mkdirErr", "loadErr"} :
          /\ loadResult' = IF err = "mkdirErr" THEN loadResult ELSE err
          /\ IF err # "nil"
             THEN Return(SetupError(err))
             ELSE pc' = "Batch" /\ UNCHANGED result
    /\ UNCHANGED <<inputVars, i, alreadyExtracted, tasks, hadErrors, once, hadErrorsWrites,
                   cancelled, extractVars, stdout, stderr, klog>>

\* mutant: a tag is skipped only when both annotations are missing
NoSourceInfo_both(repo, commit) == Len(repo) = 0 /\ Len(commit) = 0

\* mutant: only the commit annotation is looked at
NoSourceInfo_commitOnly(repo, commit) == Len(commit) = 0

\* mutant: only the repository annotation is looked at
NoSourceInfo_repoOnly(repo, commit) == Len(repo) = 0

\* len(repo) == 0 || len(commit) == 0
NoSourceInfo(repo, commit) == Len(repo) = 0 \/ Len(commit) = 0

\* mutant: the map is never consulted
Seen_never(extracted, repo) == FALSE

\* oldCommit, ok := alreadyExtracted[repo]; ok
Seen(extracted, repo) == repo \in DOMAIN extracted

\* mutant: a second reference never conflicts
Conflict_never(oldCommit, commit) == FALSE

\* mutant: every second reference conflicts
Conflict_always(oldCommit, commit) == TRUE

\* oldCommit != commit
Conflict(oldCommit, commit) == oldCommit # commit

\* mutant: the repository is not recorded
Remember_forget(extracted, repo, commit) == extracted

\* alreadyExtracted[repo] = commit
Remember(extracted, repo, commit) ==
    [r \in DOMAIN extracted \cup {repo} |-> IF r = repo THEN commit ELSE extracted[r]]

\* the directory ensureCloneForRepo(dir, repo, ...) clones repo into:
\* <dir>/<host>/<path> of the repository URL; the rest of the URL is dropped
ClonePath(dir, repo) == <<dir, Host(repo), Path(repo)>>

\* the work unit w.Parallel(func() {...}) puts on the queue: the closure with
\* its captured repo and commit
WorkUnit(repo, commit) == [repo |-> repo, commit |-> commit, state |-> "queued"]

\* w.Parallel(fn): wg.Add(1) and the unit is sent to the queue
Parallel(queue, unit) == Append(queue, unit)

\* one iteration of `for _, ref := range release.References.Spec.Tags`
RangeTags ==
    /\ pc = "Batch"
    /\ i <= Len(release)
    /\ LET repo == release[i].repo
           commit == release[i].commit
       IN  IF NoSourceInfo(repo, commit)
           THEN /\ IF klogV2
                   THEN /\ klog' = Fprintf(klog, Line("Tag has no source info", Tag(i)))
                        /\ UNCHANGED stderr
                   ELSE /\ stderr' = Fprintf(stderr, Line("warning: Tag has no source info", Tag(i)))
                        /\ UNCHANGED klog
                /\ UNCHANGED <<alreadyExtracted, tasks>>
           ELSE IF Seen(alreadyExtracted, repo)
           THEN /\ IF Conflict(alreadyExtracted[repo], commit)
                   THEN stderr' = Fprintf(stderr,
                            Line("warning: Repo referenced more than once with different commits", repo))
                   ELSE UNCHANGED stderr
                /\ UNCHANGED <<alreadyExtracted, tasks, klog>>
           ELSE /\ alreadyExtracted' = Remember(alreadyExtracted, repo, commit)
                /\ tasks' = Parallel(tasks, WorkUnit(repo, commit))
                /\ UNCHANGED <<stderr, klog>>
    /\ i' = i + 1
    /\ UNCHANGED <<inputVars, pc, flow, result, loadResult, hadErrors, once, hadErrorsWrites,
                   cancelled, stdout, extractVars>>

\* the work units a worker is executing
Running ==
    {k \in DOMAIN tasks :
        tasks[k].state \in {"clone", "cloneFailed", "checkout", "checkoutFailed"}}
Queued == {k \in DOMAIN tasks : tasks[k].state = "queued"}
Completed == {k \in DOMAIN tasks : tasks[k].state = "done"}

\* mutant: one worker too many
QueueWorkers_more == Workers + 1

\* the number of worker goroutines workqueue.New(8, ctx.Done()) starts
QueueWorkers == Workers

\* a free worker receives the oldest queued unit and calls it: the closure
\* starts with ensureCloneForRepo(dir, repo, nil, buf, buf)
WorkerReceive ==
    /\ ~cancelled
    /\ Queued # {}
    /\ Cardinality(Running) < QueueWorkers
    /\ LET k == CHOOSE q \in Queued : \A other \in Queued : q <= other
       IN  tasks' = [tasks EXCEPT ![k].state = "clone"]
    /\ UNCHANGED <<inputVars, pc, flow, result, loadResult, i, alreadyExtracted, hadErrors, once,
                   hadErrorsWrites,
                   cancelled, stdout, stderr, klog, extractVars>>

\* mutant: the flag is assigned without the sync.Once
OnceDo_unguarded ==
    once' = TRUE /\ hadErrors' = TRUE /\ hadErrorsWrites' = hadErrorsWrites + 1

\* once.Do(func() { hadErrors = true })
OnceDo ==
    IF once
    THEN UNCHANGED <<once, hadErrors, hadErrorsWrites>>
    ELSE once' = TRUE /\ hadErrors' = TRUE /\ hadErrorsWrites' = hadErrorsWrites + 1

\* mutant: a failed clone does not set the flag
CloneReturns_noFlag(k) ==
    /\ k \in DOMAIN tasks
    /\ tasks[k].state = "clone"
    /\ IF gitResult[tasks[k].repo] = "cloneErr"
       THEN /\ tasks' = [tasks EXCEPT ![k].state = "cloneFailed"]
            /\ UNCHANGED klog
       ELSE /\ klog' = IF klogV2
                       THEN Fprintf(klog, Line("Checkout", tasks[k].repo))
                       ELSE klog
            /\ tasks' = [tasks EXCEPT ![k].state = "checkout"]
    /\ UNCHANGED <<inputVars, pc, flow, result, loadResult, i, alreadyExtracted, cancelled, stdout,
                   stderr, extractVars, once, hadErrors, hadErrorsWrites>>

\* mutant: after a failed clone the unit is queued again
CloneReturns_retry(k) ==
    /\ k \in DOMAIN tasks
    /\ tasks[k].state = "clone"
    /\ IF gitResult[tasks[k].repo] = "cloneErr"
       THEN /\ OnceDo
            /\ tasks' = [tasks EXCEPT ![k].state = "queued"]
            /\ UNCHANGED klog
       ELSE /\ klog' = IF klogV2
                       THEN Fprintf(klog, Line("Checkout", tasks[k].repo))
                       ELSE klog
            /\ tasks' = [tasks EXCEPT ![k].state = "checkout"]
            /\ UNCHANGED <<once, hadErrors, hadErrorsWrites>>
    /\ UNCHANGED <<inputVars, pc, flow, result, loadResult, i, alreadyExtracted, cancelled,
                   stdout, stderr, extractVars>>

\* ensureCloneForRepo returns to the closure of unit k: with an error the
\* closure calls once.Do, without one it logs the checkout and calls
\* CheckoutCommit
CloneReturns(k) ==
    /\ k \in DOMAIN tasks
    /\ tasks[k].state = "clone"
    /\ IF gitResult[tasks[k].repo] = "cloneErr"
       THEN /\ OnceDo
            /\ tasks' = [tasks EXCEPT ![k].state = "cloneFailed"]
            /\ UNCHANGED klog
       ELSE /\ klog' = IF klogV2
                       THEN Fprintf(klog, Line("Checkout", tasks[k].repo))
                       ELSE klog
            /\ tasks' = [tasks EXCEPT ![k].state = "checkout"]
            /\ UNCHANGED <<once, hadErrors, hadErrorsWrites>>
    /\ UNCHANGED <<inputVars, pc, flow, result, loadResult, i, alreadyExtracted, cancelled, stdout,
                   stderr, extractVars>>

\* the closure of unit k, past the once.Do of a failed clone, writes the error
\* line and returns
CloneErrorPrinted(k) ==
    /\ k \in DOMAIN tasks
    /\ tasks[k].state = "cloneFailed"
    /\ stderr' = Fprintf(stderr, Line("error: cloning", tasks[k].repo))
    /\ tasks' = [tasks EXCEPT ![k].state = "done"]
    /\ UNCHANGED <<inputVars, pc, flow, result, loadResult, i, alreadyExtracted, cancelled, stdout,
                   klog, extractVars, once, hadErrors, hadErrorsWrites>>

\* extractedRepo.CheckoutCommit(repo, commit) returns to the closure of unit k:
\* with an error the closure calls once.Do, without one it writes the path and
\* returns
CheckoutReturns(k) ==
    /\ k \in DOMAIN tasks
    /\ tasks[k].state = "checkout"
    /\ IF gitResult[tasks[k].repo] = "checkoutErr"
       THEN /\ OnceDo
            /\ tasks' = [tasks EXCEPT ![k].state = "checkoutFailed"]
            /\ UNCHANGED stdout
       ELSE /\ stdout' = Fprintf(stdout, Line("path", ClonePath(o.GitExtractDir, tasks[k].repo)))
            /\ tasks' = [tasks EXCEPT ![k].state = "done"]
            /\ UNCHANGED <<once, hadErrors, hadErrorsWrites>>
    /\ UNCHANGED <<inputVars, pc, flow, result, loadResult, i, alreadyExtracted, cancelled, klog,
                   stderr, extractVars>>

\* mutant: the failure branch of the checkout does not return
CheckoutErrorPrinted_noReturn(k) ==
    /\ k \in DOMAIN tasks
    /\ tasks[k].state = "checkoutFailed"
    /\ stderr' = Fprintf(stderr, Line("error: checking out commit for", tasks[k].repo))
    /\ stdout' = Fprintf(stdout, Line("path", ClonePath(o.GitExtractDir, tasks[k].repo)))
    /\ tasks' = [tasks EXCEPT ![k].state = "done"]
    /\ UNCHANGED <<inputVars, pc, flow, result, loadResult, i, alreadyExtracted, cancelled, klog,
                   extractVars, once, hadErrors, hadErrorsWrites>>

\* the closure of unit k, past the once.Do of a failed checkout, writes the
\* error line and returns
CheckoutErrorPrinted(k) ==
    /\ k \in DOMAIN tasks
    /\ tasks[k].state = "checkoutFailed"
    /\ stderr' = Fprintf(stderr, Line("error: checking out commit for", tasks[k].repo))
    /\ tasks' = [tasks EXCEPT ![k].state = "done"]
    /\ UNCHANGED <<inputVars, pc, flow, result, loadResult, i, alreadyExtracted, cancelled, stdout,
                   klog, extractVars, once, hadErrors, hadErrorsWrites>>

\* mutant: Batch returns when fn has returned, without waiting for the units
BatchReturns_noWait ==
    /\ pc = "Batch"
    /\ i > Len(release)
    /\ pc' = "hadErrors"
    /\ UNCHANGED <<inputVars, flow, result, gitVars, stdout, stderr, klog, extractVars>>

\* q.Batch(fn) returns: fn has returned and every unit it submitted is done
BatchReturns ==
    /\ pc = "Batch"
    /\ i > Len(release)
    /\ Completed = DOMAIN tasks
    /\ pc' = "hadErrors"
    /\ UNCHANGED <<inputVars, flow, result, gitVars, stdout, stderr, klog, extractVars>>

\* if hadErrors { return kcmdutil.ErrExit }; return nil
Verdict(errors) == IF errors THEN "ErrExit" ELSE "nil"

\* the end of extractGit; the deferred cancelFn() runs
extractGitReturns ==
    /\ pc = "hadErrors"
    /\ Return(Verdict(hadErrors))
    /\ cancelled' = TRUE
    /\ UNCHANGED <<inputVars, flow, loadResult, i, alreadyExtracted, tasks, hadErrors, once,
                   hadErrorsWrites, stdout,
                   stderr, klog, extractVars>>

-----------------------------------------------------------------------------
(* imagemanifest.Verifier *)

NewVerifier == [exists |-> TRUE, verified |-> FALSE]

\* Verify(declared, computed) records whether the two digests match
Verify(v, dgst, contentDigest) ==
    [v EXCEPT !.verified = @ \/ (dgst = contentDigest)]

Verified(v) == v.verified

-----------------------------------------------------------------------------
(* ExtractOptions.Run: the manifest directory flow and the single file flow *)

\* len(ref.Ref.ID) > 0 of the reference imagesource.ParseReference(o.From) returns
RefHasID(from) == from = <<"image@sha256">>

\* os.MkdirAll(dir, 0777), imagesource.ParseReference(src) and the extract
\* options of the flow
extract ==
    /\ pc = "extract"
    /\ \E err \in {"nil", "mkdirErr", "parseErr"} :
          IF err # "nil"
          THEN Return(err) /\ UNCHANGED <<flow, verifier>>
          ELSE /\ pc' = "opts.Run"
               /\ flow' = IF Len(o.File) > 0 THEN "file" ELSE "manifests"
               /\ verifier' = IF Len(o.File) > 0 THEN verifier ELSE NewVerifier
               /\ UNCHANGED result
    /\ UNCHANGED <<inputVars, gitVars, callbacks, entries, found, stdout, stderr, klog>>

\* the mappings both flows give the extractor
NumMappings == 1

\* mutant: the callback compares the declared digest with itself
CallbackVerify_same(v, dgst, contentDigest) == Verify(v, dgst, dgst)

\* verifier.Verify(dgst, contentDigest) of the callback of the manifest flow
CallbackVerify(v, dgst, contentDigest) == Verify(v, dgst, contentDigest)

\* the line the callback of the manifest flow prints to o.Out
ExtractedLine(from, dgst) ==
    IF RefHasID(from)
    THEN Line("Extracted release payload created at", Empty)
    ELSE Line("Extracted release payload from digest", <<dgst>>)

\* opts.ImageMetadataCallback of the manifest flow
ImageMetadataCallback(dgst, contentDigest) ==
    /\ verifier' = CallbackVerify(verifier, dgst, contentDigest)
    /\ callbacks' = Append(callbacks,
           [dgst |-> dgst, contentDigest |-> contentDigest, verify |-> TRUE,
            user |-> o.ImageMetadataCallback])
    /\ stdout' = Fprintf(stdout, ExtractedLine(o.From, dgst))

\* opts.ImageMetadataCallback of the single file flow: o.ImageMetadataCallback
FileImageMetadataCallback(dgst, contentDigest) ==
    /\ callbacks' = Append(callbacks,
           [dgst |-> dgst, contentDigest |-> contentDigest, verify |-> FALSE,
            user |-> TRUE])
    /\ UNCHANGED <<verifier, stdout>>

\* the extractor was given a metadata callback
HasMetadataCallback ==
    \/ flow = "manifests"
    \/ flow = "file" /\ o.ImageMetadataCallback

\* a callback made the extractor stop with an error
CallbackFailed == \E k \in DOMAIN entries : entries[k].err

\* the extractor goes on offering tar entries
Scanning == \A k \in DOMAIN entries : entries[k].continue

\* the extractor reports the declared and the computed digest of a mapping
ExtractorMetadata ==
    /\ pc = "opts.Run"
    /\ HasMetadataCallback
    /\ Len(callbacks) < NumMappings
    /\ ~CallbackFailed
    /\ \E dgst \in Digests, contentDigest \in Digests :
          IF flow = "manifests"
          THEN ImageMetadataCallback(dgst, contentDigest)
          ELSE FileImageMetadataCallback(dgst, contentDigest)
    /\ UNCHANGED <<inputVars, pc, flow, result, gitVars, entries, found, stderr, klog>>

\* mutant: the callback asks for more entries after it copied the file
TarEntryCallback_continue(name, read) ==
    IF <<name>> # o.File
    THEN /\ entries' = Append(entries, [name |-> name, continue |-> TRUE, err |-> FALSE])
         /\ UNCHANGED <<found, stdout>>
    ELSE IF read # "all"
    THEN /\ entries' = Append(entries, [name |-> name, continue |-> FALSE, err |-> TRUE])
         /\ stdout' = IF read = "part"
                      THEN Fprintf(stdout, Line("part of file", <<name>>))
                      ELSE stdout
         /\ UNCHANGED found
    ELSE /\ stdout' = Fprintf(stdout, Line("file", <<name>>))
         /\ found' = TRUE
         /\ entries' = Append(entries, [name |-> name, continue |-> TRUE, err |-> FALSE])

\* what the reader of a tar entry yields to io.Copy(o.Out, r): all the bytes of
\* the entry, or an error after some of them, or an error before any of them
Reads == {"all", "part", "none"}

\* opts.TarEntryCallback of the single file flow; io.Copy has written what it
\* read before the error it returns
TarEntryCallback(name, read) ==
    IF <<name>> # o.File
    THEN /\ entries' = Append(entries, [name |-> name, continue |-> TRUE, err |-> FALSE])
         /\ UNCHANGED <<found, stdout>>
    ELSE IF read # "all"
    THEN /\ entries' = Append(entries, [name |-> name, continue |-> FALSE, err |-> TRUE])
         /\ stdout' = IF read = "part"
                      THEN Fprintf(stdout, Line("part of file", <<name>>))
                      ELSE stdout
         /\ UNCHANGED found
    ELSE /\ stdout' = Fprintf(stdout, Line("file", <<name>>))
         /\ found' = TRUE
         /\ entries' = Append(entries, [name |-> name, continue |-> FALSE, err |-> FALSE])

\* the extractor offers the next tar entry of release-manifests/
ExtractorEntry ==
    /\ pc = "opts.Run"
    /\ flow = "file"
    /\ Scanning
    /\ Len(entries) < MaxEntries
    /\ \E name \in FileNames, read \in Reads : TarEntryCallback(name, read)
    /\ UNCHANGED <<inputVars, pc, flow, result, gitVars, verifier, callbacks, stderr, klog>>

\* mutant: the policy ignores SkipVerification
Policy_strict(isVerified, skipVerification) ==
    IF ~isVerified THEN "tamperErr" ELSE "nil"

\* what Run does once the extractor succeeded with the verifier in this state
Policy(isVerified, skipVerification) ==
    IF ~isVerified
    THEN IF ~skipVerification THEN "tamperErr" ELSE "warning"
    ELSE "nil"

\* opts.Run() returns err in the manifest flow
ManifestsReturn(err) ==
    IF err # "nil"
    THEN Return(err) /\ UNCHANGED stderr
    ELSE IF Policy(Verified(verifier), o.SecurityOptions_SkipVerification) = "tamperErr"
    THEN Return("tamperErr") /\ UNCHANGED stderr
    ELSE IF Policy(Verified(verifier), o.SecurityOptions_SkipVerification) = "warning"
    THEN /\ stderr' = Fprintf(stderr,
                Line("warning: the release image failed content verification", Empty))
         /\ Return("nil")
    ELSE Return("nil") /\ UNCHANGED stderr

\* opts.Run() returns err in the single file flow
FileReturn(err) ==
    /\ IF err # "nil"
       THEN Return(err)
       ELSE IF ~found
       THEN Return("notFoundErr")
       ELSE Return("nil")
    /\ UNCHANGED stderr

\* opts.Run() returns: nil, or an error of its own or of a callback
optsRunReturns ==
    /\ pc = "opts.Run"
    /\ \E err \in {"nil", "extractErr"} :
          /\ CallbackFailed => err # "nil"
          /\ IF flow = "manifests" THEN ManifestsReturn(err) ELSE FileReturn(err)
    /\ UNCHANGED <<inputVars, flow, gitVars, extractVars, stdout, klog>>

-----------------------------------------------------------------------------
(* Specifications *)

Next ==
    \/ Run
    \/ extractTools
    \/ extractCommand
    \/ extractGit
    \/ RangeTags
    \/ WorkerReceive
    \/ \E k \in DOMAIN tasks : CloneReturns(k)
    \/ \E k \in DOMAIN tasks : CloneErrorPrinted(k)
    \/ \E k \in DOMAIN tasks : CheckoutReturns(k)
    \/ \E k \in DOMAIN tasks : CheckoutErrorPrinted(k)
    \/ BatchReturns
    \/ extractGitReturns
    \/ extract
    \/ ExtractorMetadata
    \/ ExtractorEntry
    \/ optsRunReturns

\* every run of the command, on releases of at most MaxRefs tags
Spec == Init /\ [][Next]_vars

NextGit ==
    \/ Run
    \/ extractGit
    \/ RangeTags
    \/ WorkerReceive
    \/ \E k \in DOMAIN tasks : CloneReturns(k)
    \/ \E k \in DOMAIN tasks : CloneErrorPrinted(k)
    \/ \E k \in DOMAIN tasks : CheckoutReturns(k)
    \/ \E k \in DOMAIN tasks : CheckoutErrorPrinted(k)
    \/ BatchReturns
    \/ extractGitReturns

\* the git flow on a release with more source repositories than workers
SpecWide == InitWide /\ [][NextGit]_vars

\* the git flow on the four tag release A, B, C, D
SpecScenario == InitScenario /\ [][NextGit]_vars

\* the git flow on releases that may name a repository under two URLs
SpecAlias == InitAlias /\ [][NextGit]_vars

\* SpecScenario with goroutines that are scheduled and git commands that return
SpecLive == InitScenario /\ [][NextGit]_vars /\ WF_vars(NextGit)

-----------------------------------------------------------------------------
(* Vocabulary of the properties *)

\* extractGit went past LoadReleaseInfo
GitLoaded == flow = "git" /\ pc \in {"Batch", "hadErrors", "done"}
                          /\ result \notin {"mkdirErr", "loadErr"}

\* the producer loop went over every tag
LoopDone == GitLoaded /\ i > Len(release)

\* q.Batch has returned
AfterBatch == GitLoaded /\ pc \in {"hadErrors", "done"}

\* extractGit has returned its verdict
GitReturned == GitLoaded /\ pc = "done"

\* the tags among the first n that name repository r and carry both annotations
RefsTo(r, n) ==
    {k \in 1..n : release[k].repo = r /\ Len(release[k].repo) # 0
                                      /\ Len(release[k].commit) # 0}

\* the tags handled so far
Handled == IF GitLoaded THEN i - 1 ELSE 0

FirstRef(r) == CHOOSE k \in RefsTo(r, Len(release)) : \A j \in RefsTo(r, Len(release)) : k <= j

\* the tags that name r at another commit than the first tag that names r
Differing(r) ==
    {k \in RefsTo(r, Len(release)) : release[k].commit # release[FirstRef(r)].commit}

TasksFor(r) == {k \in DOMAIN tasks : tasks[k].repo = r}

ConflictWarnings(r) ==
    CopiesIn(Line("warning: Repo referenced more than once with different commits", r), stderr)

ErrorLines(r) ==
    CopiesIn(Line("error: cloning", r), stderr)
    + CopiesIn(Line("error: checking out commit for", r), stderr)

PathLines(r) == CopiesIn(Line("path", ClonePath(o.GitExtractDir, r)), stdout)

\* the submitted units whose clone or checkout fails
FailingTasks == {k \in DOMAIN tasks : gitResult[tasks[k].repo] # "ok"}

-----------------------------------------------------------------------------
(* Properties *)

\* C1: at every point of the producer loop, and once it is over, the number of
\* checkout tasks submitted to the queue equals the number of distinct
\* repositories among the tags handled so far that carry both a repository and a
\* commit annotation.
C1_TasksEqualDistinctRepos ==
    GitLoaded =>
        Len(tasks) = Cardinality({r \in SourceRepos(release) : RefsTo(r, Handled) # {}})

C1_Witness ==
    /\ LoopDone
    /\ Len(release) = 3
    /\ Cardinality(SourceRepos(release)) = 2
    /\ Len(tasks) = 2

\* C2 as stated: a repository referenced with differing commits gets exactly one
\* task, bound to the first-seen commit, and exactly one conflict warning.
C2_ExactlyOneWarning ==
    LoopDone =>
        \A r \in SourceRepos(release) :
            Differing(r) # {} =>
                /\ Cardinality(TasksFor(r)) = 1
                /\ \A k \in TasksFor(r) : tasks[k].commit = release[FirstRef(r)].commit
                /\ ConflictWarnings(r) = 1

\* C2 amended: a repository referenced with differing commits gets exactly one
\* task, bound to the first-seen commit, and one conflict warning for each later
\* reference whose commit differs from the first-seen commit (at least one).
C2_OneWarningPerDifferingRef ==
    LoopDone =>
        \A r \in SourceRepos(release) :
            Differing(r) # {} =>
                /\ Cardinality(TasksFor(r)) = 1
                /\ \A k \in TasksFor(r) : tasks[k].commit = release[FirstRef(r)].commit
                /\ ConflictWarnings(r) = Cardinality(Differing(r))
                /\ ConflictWarnings(r) >= 1

C2_Witness ==
    /\ LoopDone
    /\ \E r \in SourceRepos(release) :
          /\ Cardinality(Differing(r)) = 2
          /\ ConflictWarnings(r) = 2
          /\ Cardinality(TasksFor(r)) = 1

\* two tags name r with the same commit
SameCommitPair(r) ==
    \E a, b \in RefsTo(r, Len(release)) : a # b /\ release[a].commit = release[b].commit

\* C3 as stated: a repository that two tags reference with the same commit gets
\* exactly one task and no conflict warning.
C3_NoWarning ==
    LoopDone =>
        \A r \in SourceRepos(release) :
            SameCommitPair(r) =>
                /\ Cardinality(TasksFor(r)) = 1
                /\ ConflictWarnings(r) = 0

\* C3 amended: a repository that two tags reference with the same commit gets
\* exactly one task, and no conflict warning is emitted for it exactly when every
\* tag that references it carries the first-seen commit.
C3_NoWarningIffAllSame ==
    LoopDone =>
        \A r \in SourceRepos(release) :
            SameCommitPair(r) =>
                /\ Cardinality(TasksFor(r)) = 1
                /\ (ConflictWarnings(r) = 0 <=> Differing(r) = {})

C3_Witness ==
    /\ LoopDone
    /\ \E r \in SourceRepos(release) :
          /\ Cardinality(RefsTo(r, Len(release))) = 2
          /\ SameCommitPair(r)
          /\ ConflictWarnings(r) = 0
          /\ Cardinality(TasksFor(r)) = 1

\* C4: once Batch has returned, hadErrors is true exactly when the clone or the
\* checkout of some submitted task failed; extractGit then returns ErrExit
\* exactly when some task failed and nil otherwise, whatever tags were skipped.
C4_HadErrorsIffTaskFailed ==
    /\ AfterBatch => (hadErrors <=> FailingTasks # {})
    /\ GitReturned => /\ result \in {"nil", "ErrExit"}
                      /\ (result = "ErrExit" <=> FailingTasks # {})

C4_Witness ==
    /\ GitReturned
    /\ result = "ErrExit"
    /\ Cardinality(FailingTasks) = 2
    /\ Len(release) > Len(tasks)

\* C5: the number of checkout tasks a worker is executing never exceeds the
\* parallelism of the queue, 8.
C5_AtMostEightRunning == Cardinality(Running) <= Workers

C5_Witness ==
    /\ Cardinality(Running) = Workers
    /\ Queued # {}

\* C6: when extractGit reads hadErrors, and after it, the producer loop is over
\* and every submitted task has completed; with no task submitted Batch can
\* return as soon as the loop is over and extractGit returns nil.
C6_BatchIsBarrier ==
    /\ AfterBatch => /\ i > Len(release)
                     /\ \A k \in DOMAIN tasks : tasks[k].state = "done"
    /\ (LoopDone /\ pc = "Batch" /\ Len(tasks) = 0) => ENABLED BatchReturns
    /\ (GitReturned /\ Len(tasks) = 0) => result = "nil"

C6_Witness ==
    /\ pc = "hadErrors"
    /\ Len(tasks) = 2
    /\ \A k \in DOMAIN tasks : tasks[k].state = "done"

\* the extractor of the manifest flow returned without error
ManifestsExtracted ==
    flow = "manifests" /\ pc = "done" /\ result \notin {"mkdirErr", "parseErr", "extractErr"}

\* no Verify call was given two equal digests
NoMatch == \A k \in DOMAIN callbacks : callbacks[k].dgst # callbacks[k].contentDigest

TamperWarnings ==
    CopiesIn(Line("warning: the release image failed content verification", Empty), stderr)

\* C7: in the manifest flow, once the extractor returned without error, Run
\* returns the tamper error exactly when no match was recorded (also when the
\* callback never fired) and verification is not skipped; with verification
\* skipped and no match it prints the warning once and returns nil.
C7_TamperErrorIffUnverified ==
    ManifestsExtracted =>
        /\ result \in {"nil", "tamperErr"}
        /\ (result = "tamperErr" <=> NoMatch /\ ~o.SecurityOptions_SkipVerification)
        /\ (NoMatch /\ o.SecurityOptions_SkipVerification) =>
               (result = "nil" /\ TamperWarnings = 1)
        /\ ~NoMatch => TamperWarnings = 0

C7_Witness ==
    /\ ManifestsExtracted
    /\ callbacks = <<>>
    /\ ~o.SecurityOptions_SkipVerification
    /\ result = "tamperErr"

\* the callback reported a declared digest that differs from the computed one
Mismatch == \E k \in DOMAIN callbacks : callbacks[k].dgst # callbacks[k].contentDigest

\* the "Extracted release payload ..." lines on standard output
ExtractedLines ==
    {l \in BagToSet(stdout) : l[1] \in {"Extracted release payload created at",
                                         "Extracted release payload from digest"}}

\* C8 as stated: in a run of the manifest flow whose declared and computed digests
\* differ, when verification is not skipped no success message is ever on
\* standard output and the run ends with an error; when verification is skipped
\* and the extractor succeeds, the run prints the warning and returns nil.
C8_NoSuccessMessage ==
    /\ (flow = "manifests" /\ Mismatch /\ ~o.SecurityOptions_SkipVerification) =>
           /\ ExtractedLines = {}
           /\ pc = "done" => result \in {"tamperErr", "extractErr"}
    /\ (ManifestsExtracted /\ Mismatch /\ o.SecurityOptions_SkipVerification) =>
           (result = "nil" /\ TamperWarnings = 1)

\* C9: the verifier reports false before any Verify call and after a Verify call
\* whose digests differ, and reports true only after a Verify call whose digests
\* are equal.
C9_VerifiedOnlyAfterMatch ==
    verifier.exists =>
        /\ callbacks = <<>> => ~Verified(verifier)
        /\ (callbacks # <<>> /\
            callbacks[Len(callbacks)].dgst # callbacks[Len(callbacks)].contentDigest)
               => ~Verified(verifier)
        /\ Verified(verifier) =>
               \E k \in DOMAIN callbacks :
                   callbacks[k].verify /\ callbacks[k].dgst = callbacks[k].contentDigest

C9_Witness ==
    /\ verifier.exists
    /\ Len(callbacks) = 1
    /\ callbacks[1].dgst # callbacks[1].contentDigest
    /\ ~Verified(verifier)
    /\ pc = "done"

\* C10: a task that is not done has written nothing; a done task whose clone or
\* checkout failed has written exactly one error line naming its repository and
\* no path; a done task that succeeded has written its path once and no error
\* line; and a run with a failing task returns ErrExit.
C10_OneOutputPerTask ==
    /\ \A k \in DOMAIN tasks :
          LET r == tasks[k].repo
          IN  IF tasks[k].state # "done"
              THEN ErrorLines(r) = 0 /\ PathLines(r) = 0
              ELSE IF gitResult[r] # "ok"
              THEN ErrorLines(r) = 1 /\ PathLines(r) = 0
              ELSE ErrorLines(r) = 0 /\ PathLines(r) = 1
    /\ (GitReturned /\ FailingTasks # {}) => result = "ErrExit"

C10_Witness ==
    /\ GitReturned
    /\ \E a, b \in DOMAIN tasks :
          /\ gitResult[tasks[a].repo] = "checkoutErr"
          /\ gitResult[tasks[b].repo] = "ok"
          /\ ErrorLines(tasks[a].repo) = 1
          /\ PathLines(tasks[b].repo) = 1

\* C11: when LoadReleaseInfo fails, extractGit has returned the load error itself,
\* no task was submitted or run, the flag is unset and nothing was printed.
C11_LoadErrorAborts ==
    loadResult = "loadErr" =>
        /\ pc = "done"
        /\ result = "loadErr"
        /\ tasks = <<>>
        /\ alreadyExtracted = <<>>
        /\ ~hadErrors
        /\ stdout = EmptyBag /\ stderr = EmptyBag /\ klog = EmptyBag

C11_Witness ==
    /\ loadResult = "loadErr"
    /\ pc = "done"
    /\ Cardinality(SourceRepos(release)) = 2

\* the number of --tools, --command, --file, --git given
Selected ==
    Cardinality({f \in {"tools", "command", "file", "git"} :
        \/ f = "tools" /\ o.Tools
        \/ f = "command" /\ o.Command # Empty
        \/ f = "file" /\ o.File # Empty
        \/ f = "git" /\ o.GitExtractDir # Empty})

\* nothing of the git flow has happened
NoGitState ==
    /\ loadResult = "none" /\ tasks = <<>> /\ alreadyExtracted = <<>>
    /\ ~hadErrors /\ ~cancelled

\* nothing of the manifest and single file flows has happened
NoExtractState ==
    /\ ~verifier.exists /\ callbacks = <<>> /\ entries = <<>> /\ ~found

\* C12: a run executes at most one flow: the state of the other flows stays
\* untouched; and with more than one of --tools, --command, --file, --git Run
\* returns the error of its first case without entering any flow.
C12_ModesExclusive ==
    /\ flow = "git" => NoExtractState
    /\ flow \in {"manifests", "file"} => NoGitState
    /\ flow \in {"none", "tools", "command"} => NoGitState /\ NoExtractState
    /\ Selected > 1 =>
          /\ flow = "none"
          /\ pc \in {"Run", "done"}
          /\ pc = "done" => result = "errSources"
          /\ stdout = EmptyBag /\ stderr = EmptyBag

C12_Witness ==
    /\ Selected = 2
    /\ o.GitExtractDir # Empty
    /\ o.From # Empty
    /\ pc = "done"
    /\ result = "errSources"

NoSourceWarnings(k) == CopiesIn(Line("warning: Tag has no source info", Tag(k)), stderr)
NoSourceLogs(k) == CopiesIn(Line("Tag has no source info", Tag(k)), klog)

\* the repository and commit of every submitted task, in submission order
Dispatched == [k \in DOMAIN tasks |-> <<tasks[k].repo, tasks[k].commit>>]

\* the two tasks of the scenario
ScenarioTasks == << <<Repo(1), Commit(1)>>, <<Repo(2), Commit(2)>> >>

\* the paths of the two repositories of the scenario, once each
ScenarioPaths ==
    SetToBag({Line("path", ClonePath(o.GitExtractDir, Repo(n))) : n \in {1, 2}})

\* C13 as stated: on the release A, B, C, D exactly the tasks R1/C1 and R2/C2 are
\* dispatched, nothing about D is written to the output or error stream, and
\* when both checkouts succeed the output lists exactly the two paths.
C13_SkippedSilently ==
    /\ NoSourceWarnings(4) = 0
    /\ LoopDone => Dispatched = ScenarioTasks
    /\ (GitReturned /\ \A r \in DOMAIN gitResult : gitResult[r] = "ok") =>
           stdout = ScenarioPaths

\* C13 amended: on the release A, B, C, D exactly the tasks R1/C1 and R2/C2 are
\* dispatched; D gets no task and one message that it has no source info, a
\* "warning:" line on the error stream, or a klog line when klog.V(2) is on;
\* nothing about D is on standard output, and when both checkouts succeed the
\* output lists exactly the two paths.
C13_SkippedWithWarning ==
    /\ LoopDone =>
          /\ Dispatched = ScenarioTasks
          /\ NoSourceWarnings(4) = (IF klogV2 THEN 0 ELSE 1)
          /\ NoSourceLogs(4) = (IF klogV2 THEN 1 ELSE 0)
          /\ \A k \in 1..3 : NoSourceWarnings(k) = 0 /\ NoSourceLogs(k) = 0
    /\ stdout \sqsubseteq ScenarioPaths
    /\ (GitReturned /\ \A r \in DOMAIN gitResult : gitResult[r] = "ok") =>
           stdout = ScenarioPaths

C13_Witness ==
    /\ GitReturned
    /\ ~klogV2
    /\ \A r \in DOMAIN gitResult : gitResult[r] = "ok"
    /\ stdout = ScenarioPaths
    /\ NoSourceWarnings(4) = 1

\* tag k lacks the repository or the commit annotation
NoSource(k) == Len(release[k].repo) = 0 \/ Len(release[k].commit) = 0

\* C14 as stated: every tag the loop has handled that lacks the repository or
\* the commit annotation has got a warning on the error stream, and no task has
\* an empty repository or commit.
C14_WarningPrinted ==
    GitLoaded =>
        /\ \A k \in DOMAIN release :
              (k <= Handled /\ NoSource(k)) => NoSourceWarnings(k) >= 1
        /\ \A k \in DOMAIN tasks : Len(tasks[k].repo) # 0 /\ Len(tasks[k].commit) # 0

\* C14 amended: every tag the loop has handled that lacks the repository or the
\* commit annotation has got exactly one message that it has no source info: the
\* "warning:" line on the error stream when klog.V(2) is off, a klog info line
\* and no warning when klog.V(2) is on; the other tags have got none, and no
\* task has an empty repository or commit.
C14_WarningUnlessVerbose ==
    GitLoaded =>
        /\ \A k \in DOMAIN release :
              /\ NoSourceWarnings(k) =
                     (IF k <= Handled /\ NoSource(k) /\ ~klogV2 THEN 1 ELSE 0)
              /\ NoSourceLogs(k) =
                     (IF k <= Handled /\ NoSource(k) /\ klogV2 THEN 1 ELSE 0)
        /\ \A k \in DOMAIN tasks : Len(tasks[k].repo) # 0 /\ Len(tasks[k].commit) # 0

C14_Witness ==
    /\ GitReturned
    /\ klogV2
    /\ Len(release) = 3
    /\ Len(release[1].repo) # 0 /\ Len(release[1].commit) = 0
    /\ NoSource(2) /\ ~NoSource(3)
    /\ NoSourceLogs(1) = 1 /\ NoSourceLogs(2) = 1
    /\ NoSourceWarnings(1) = 0 /\ NoSourceWarnings(2) = 0
    /\ Len(tasks) = 1

\* the repositories the loop has still to add to the map
PendingEntries == {r \in SourceRepos(release) : r \notin DOMAIN alreadyExtracted}

\* C15 as stated: no task is in the running state while an entry has still to be
\* added to alreadyExtracted.
C15_PlanningPrecedesDispatch ==
    GitLoaded => (Running # {} => PendingEntries = {})

\* C15 amended: alreadyExtracted is populated by the producer loop alone: at
\* every moment it holds exactly the repositories of the tags the loop has
\* handled, each with its first-seen commit, whatever the workers have done
\* meanwhile, and it is complete when Batch returns.
C15_MapFollowsProducerOnly ==
    GitLoaded =>
        /\ DOMAIN alreadyExtracted =
               {r \in SourceRepos(release) : RefsTo(r, Handled) # {}}
        /\ \A r \in DOMAIN alreadyExtracted :
               alreadyExtracted[r] = release[FirstRef(r)].commit
        /\ AfterBatch => PendingEntries = {}

C15_Witness ==
    /\ pc = "Batch"
    /\ Running # {}
    /\ PendingEntries # {}
    /\ alreadyExtracted # <<>>

\* the order of the states of a work unit
TaskRank(state) ==
    CASE state = "queued" -> 0
      [] state = "clone" -> 1
      [] state = "cloneFailed" -> 2
      [] state = "checkout" -> 2
      [] state = "checkoutFailed" -> 3
      [] state = "done" -> 4

\* C16: the context is not cancelled before extractGit returns; a queued task
\* can be started whenever a worker is free, whether or not another task has
\* failed; a task never goes back to an earlier state (no retry); and once the
\* release is loaded every submitted task runs to completion and extractGit
\* returns.
C16_EveryTaskRunsOnce ==
    /\ [](cancelled => pc = "done")
    /\ []((Queued # {} /\ Cardinality(Running) < Workers /\ pc # "done")
             => ENABLED WorkerReceive)
    /\ [][\A k \in DOMAIN tasks :
             TaskRank(tasks'[k].state) >= TaskRank(tasks[k].state)]_vars
    /\ (GitLoaded ~> (GitReturned /\ LoopDone /\ Completed = DOMAIN tasks))

C16_Witness ==
    /\ GitReturned
    /\ \E a, b \in DOMAIN tasks :
          /\ a < b
          /\ gitResult[tasks[a].repo] = "cloneErr"
          /\ gitResult[tasks[b].repo] = "ok"
          /\ ErrorLines(tasks[a].repo) = 1
          /\ PathLines(tasks[b].repo) = 1

\* C17: hadErrors starts false and has been assigned at most once, to true, however
\* many tasks have failed: it is true exactly when the one assignment has
\* happened, which is exactly when the sync.Once has fired.
C17_HadErrorsWrittenOnce ==
    /\ hadErrorsWrites \in {0, 1}
    /\ hadErrors <=> hadErrorsWrites = 1
    /\ hadErrors <=> once
    /\ pc \in {"Run", "extractGit"} => ~hadErrors

C17_Witness ==
    /\ hadErrors
    /\ hadErrorsWrites = 1
    /\ Cardinality({k \in FailingTasks : tasks[k].state = "done"}) = 2

\* the running tasks whose clone directory is d
RunningIn(d) == {k \in Running : ClonePath(o.GitExtractDir, tasks[k].repo) = d}

\* the source locations of the release whose clone directory is d
LocationsOf(d) == {r \in SourceRepos(release) : ClonePath(o.GitExtractDir, r) = d}

ContentExtracted ==
    /\ flow \in {"manifests", "file"}
    /\ pc = "done"
    /\ result \notin {"mkdirErr", "parseErr", "extractErr"}

\* C19 as stated: in the manifest flow and in the single file flow alike, every
\* firing of the metadata callback goes through the verifier, and a run whose
\* extractor succeeded without a recorded match fails unless verification is
\* skipped.
C19_AllModesVerify ==
    /\ \A k \in DOMAIN callbacks : callbacks[k].verify
    /\ (ContentExtracted /\ NoMatch /\ ~o.SecurityOptions_SkipVerification)
           => result # "nil"

\* the tar entries whose name is the requested file
Matches == {k \in DOMAIN entries : <<entries[k].name>> = o.File}

FileCopies == CopiesIn(Line("file", o.File), stdout)
PartCopies == CopiesIn(Line("part of file", o.File), stdout)

\* C20: in the single file flow the callback answers "continue" without error for
\* every entry with another name and "stop" for an entry with the requested
\* name, which is therefore the last one offered; the file is copied at most
\* once, and exactly when found is set; after a failed copy found is unset, the
\* output holds at most the part of the file written before the failure, and
\* Run returns an error; and after an extractor run without error Run returns
\* the "image did not contain" error exactly when no entry matched.
C20_SingleFileScan ==
    flow = "file" =>
        /\ \A k \in DOMAIN entries :
              IF k \in Matches
              THEN ~entries[k].continue /\ k = Len(entries)
              ELSE entries[k].continue /\ ~entries[k].err
        /\ BagCardinality(stdout) <= 1
        /\ FileCopies = (IF found THEN 1 ELSE 0)
        /\ PartCopies > 0 => CallbackFailed
        /\ CallbackFailed => (~found /\ (pc = "done" => result = "extractErr"))
        /\ (pc = "done" /\ result \notin {"mkdirErr", "parseErr", "extractErr"}) =>
               /\ result \in {"nil", "notFoundErr"}
               /\ result = "notFoundErr" <=> Matches = {}

C20_Witness ==
    /\ flow = "file"
    /\ pc = "done"
    /\ result = "nil"
    /\ Len(entries) = 2
    /\ Matches = {2}
    /\ FileCopies = 1

====
